---- MODULE Spec2Model ----
(***************************************************************************)
(* State-machine model of the <bs-modal> custom element of                 *)
(* src/src/bs-modal.ts (class BsModalElement and the free functions        *)
(* cancelAnims, showAnim, hideAnim, getFocusElement, tick).                *)
(*                                                                         *)
(* Spec and FairSpec start from the element attached and rendered (its     *)
(* #container exists); AttachedSpec adds detaching and attaching again;    *)
(* LifeSpec starts from the element as constructed and adds the first      *)
(* rendering; PairSpec adds a second modal of the same document.  The      *)
(* browser is single threaded: a call of show()/hide() runs to its return  *)
(* before any task, and the promise reactions queued by an animation       *)
(* (the microtask queue `micro`) run before the next task.  dispatchEvent  *)
(* is synchronous, so a listener of 'show' or 'hide' runs in the middle of *)
(* show()/hide() and may call show()/hide()/toggle() itself: `stack` holds *)
(* the calls that are waiting inside dispatchEvent.                        *)
(***************************************************************************)
EXTENDS Integers, Sequences, FiniteSets, TLC

\* Bounds of the model.
MaxAnims == 4       \* animations created in one behaviour
MaxDepth == 2       \* show()/hide() calls nested through event listeners
MaxConnects == 2    \* times the element is attached to the document

\* The elements of the document that can hold focus.
NoElement == "none"
Outside == {"A", "X"}            \* outside the modal's subtree
Inside == {"modal", "B"}         \* the modal itself and a slotted child
Elements == Outside \cup Inside
AttrValues == {"true", "false"}
OtherAttrValues == {"static"}    \* some value that is neither
ListenerTypes == {"click", "keydown", "focusin"}
Keys == {"Escape", "Esc", "Enter"}

VARIABLES
  isOpen,       \* @property isOpen
  isClosed,     \* @property isClosed
  bodyOpen,     \* document.body carries the class 'modal-open'
  prevFocus,    \* _prevFocusElement (NoElement for undefined)
  focus,        \* document.activeElement
  backdrop,     \* attribute backdrop
  keyboard,     \* attribute keyboard
  anims,        \* every animation created on #container, in creation order
  micro,        \* queued reactions of anim.finished (indices into anims)
  stack,        \* show()/hide() calls suspended in dispatchEvent
  tickPending,  \* a requestAnimationFrame callback of show() is scheduled
  event,        \* the lifecycle event dispatched by the last step
  eventAnim,    \* the animation whose continuation dispatched it (0: none)
  called,       \* the method entered or returned from in the last step
  trigger,      \* what invoked it (a focus move: the element; a keydown: the key)
  ret,          \* its return value: "true", "false", or "none"
  openedFocus,  \* history: the outside element focused when the modal opened
  connected,    \* the element is attached to the document
  rendered,     \* the first render has happened: #container exists
  listeners,    \* the registered click / keydown / focusin listeners
  unsubFuncs,   \* _unsubFuncs
  gen,          \* number of connectedCallback runs (names the bound handlers)
  other         \* a second <bs-modal> of the same document

vars == <<isOpen, isClosed, bodyOpen, prevFocus, focus, backdrop, keyboard,
          anims, micro, stack, tickPending, event, eventAnim, called,
          trigger, ret, openedFocus, connected, rendered, listeners,
          unsubFuncs, gen, other>>

\* What show(), hide() and the handlers of this element never touch.
env == <<connected, rendered, listeners, unsubFuncs, gen, other>>

attrs == <<backdrop, keyboard>>

----------------------------------------------------------------------------
\* Helpers

Running(as) == {i \in DOMAIN as : as[i].state = "running"}

Indices(as) == [i \in 1..Len(as) |-> i]

RunningSeq(as) == SelectSeq(Indices(as), LAMBDA i : as[i].state = "running")

\* The handlers connectedCallback binds and registers, and the closures it
\* pushes on _unsubFuncs: one per listener type, fresh for each run n.
Bound(n) == {[type |-> t, gen |-> n] : t \in ListenerTypes}

BoundSeq(n) ==
  << [type |-> "click", gen |-> n], [type |-> "keydown", gen |-> n],
     [type |-> "focusin", gen |-> n] >>

Range(f) == {f[i] : i \in DOMAIN f}

HasListener(t) == \E l \in listeners : l.type = t

\* render(): this.hidden = this.isClosed
hidden == isClosed

\* document.activeElement: an element that is no longer displayed has lost
\* focus (`focus` keeps the element that was focused last).
activeElement ==
  IF focus \in Inside /\ (hidden \/ ~connected) THEN NoElement ELSE focus

\* getFocusElement(): document.activeElement || undefined
getFocusElement == activeElement

\* this.focus(): focusing an element that is not displayed does nothing
FocusModal == IF hidden \/ ~connected THEN activeElement ELSE "modal"

\* _focusinHandler: focus arriving outside the open modal is pulled back
focusinHandler(target) ==
  IF isOpen /\ target # NoElement /\ target \notin Inside /\ ~hidden
    THEN "modal"
    ELSE target

\* element.focus() of any element, followed by the focusin listeners
FocusCall(target) ==
  IF target \in Inside /\ (hidden \/ ~connected)
    THEN activeElement
    ELSE IF HasListener("focusin") THEN focusinHandler(target) ELSE target

\* Mutant of cancelAnims: the running animations are left running.
cancelAnims_Skip(as) == as

\* Mutant of cancelAnims: anim.finish() is called instead of anim.cancel().
cancelAnims_Finish(as) ==
  [i \in DOMAIN as |->
     IF as[i].state = "running"
       THEN [as[i] EXCEPT !.state = "canceled", !.finished = "fulfilled"]
       ELSE as[i]]

\* cancelAnims: cancel every animation getAnimations() returns.  A cancelled
\* animation rejects its `finished` promise.
cancelAnims(as) ==
  [i \in DOMAIN as |->
     IF as[i].state = "running"
       THEN [as[i] EXCEPT !.state = "canceled", !.finished = "rejected"]
       ELSE as[i]]

\* History: the entrance animations that run when a hide() is accepted.
Entering(as) == {i \in Running(as) : as[i].kind = "show"}

MarkInterrupted(as, S) ==
  [i \in DOMAIN as |->
     IF i \in S THEN [as[i] EXCEPT !.interrupted = TRUE] ELSE as[i]]

\* ele.animate(...) as called by showAnim / hideAnim
animate(kind) ==
  [kind |-> kind, state |-> "running", finished |-> "pending",
   promise |-> "pending", fired |-> 0, interrupted |-> FALSE]

\* Mutant of SettleOuter: the catch handler resolves the promise as well.
SettleOuter_ResolveOnAbort(finished) == "resolved"

\* new Promise(resolve => anim.finished.then(() => resolve(anim)).catch(() => {}))
\* the state of the returned promise once anim.finished has settled
SettleOuter(finished) ==
  IF finished = "fulfilled" THEN "resolved" ELSE "pending"

\* Mutant of ShowRejects: the guard of show() is missing.
ShowRejects_NoGuard == FALSE

\* if (this.isOpen) return false
ShowRejects == isOpen

\* Mutant of HideRejects: hide() tests isClosed instead of isOpen.
HideRejects_IsClosed == isClosed

\* if (!this.isOpen) return false
HideRejects == ~isOpen

\* classList.add('modal-open') / classList.remove('modal-open') on a body
\* whose class list holds the class iff b
classListAdd(b) == TRUE

\* Mutant of classListRemove: the class is not removed.
classListRemove_Keep(b) == b

classListRemove(b) == FALSE

Top == stack[Len(stack)]

\* A call can be made by the application when nothing runs, or by a listener
\* of the event that the call on top of the stack is dispatching.
CanCall ==
  \/ stack = <<>> /\ micro = <<>>
  \/ stack # <<>> /\ Len(stack) < MaxDepth

Room == Len(anims) + Len(stack) < MaxAnims

Origin(trig) == IF stack = <<>> THEN trig ELSE "listener"

----------------------------------------------------------------------------
Init ==
  /\ isOpen = FALSE
  /\ isClosed = TRUE
  /\ bodyOpen = FALSE
  /\ prevFocus = NoElement
  /\ focus \in Outside \cup {NoElement}
  /\ backdrop = "true"
  /\ keyboard = "true"
  /\ anims = <<>>
  /\ micro = <<>>
  /\ stack = <<>>
  /\ tickPending = FALSE
  /\ event = "none"
  /\ eventAnim = 0
  /\ called = "none"
  /\ trigger = "none"
  /\ ret = "none"
  /\ openedFocus = NoElement
  /\ connected = TRUE
  /\ rendered = TRUE
  /\ listeners = Bound(1)
  /\ unsubFuncs = BoundSeq(1)
  /\ gen = 1
  /\ other = [isOpen |-> FALSE, isClosed |-> TRUE, anim |-> "none"]

\* show(), lines 99-111: up to and including dispatchEvent('show')
show(trig) ==
  /\ called' = "show"
  /\ trigger' = Origin(trig)
  /\ eventAnim' = 0
  /\ UNCHANGED env
  /\ IF ShowRejects
       THEN /\ ret' = "false"
            /\ event' = "none"
            /\ UNCHANGED <<isOpen, isClosed, bodyOpen, prevFocus, focus, attrs,
                           anims, micro, stack, tickPending, openedFocus>>
       ELSE IF ~rendered
       THEN \* this.container is null: cancelAnims (line 108) throws
            /\ prevFocus' = getFocusElement
            /\ isOpen' = TRUE
            /\ isClosed' = FALSE
            /\ bodyOpen' = classListAdd(bodyOpen)
            /\ ret' = "threw"
            /\ event' = "none"
            /\ UNCHANGED <<focus, attrs, anims, micro, stack, tickPending,
                           openedFocus>>
       ELSE /\ Room
            /\ prevFocus' = getFocusElement
            /\ isOpen' = TRUE
            /\ isClosed' = FALSE
            /\ bodyOpen' = classListAdd(bodyOpen)
            /\ anims' = cancelAnims(anims)
            /\ micro' = micro \o RunningSeq(anims)
            /\ event' = "show"
            /\ stack' = Append(stack, [fn |-> "show", trig |-> Origin(trig),
                                       interrupted |-> {}])
            /\ ret' = "none"
            /\ openedFocus' = IF activeElement \in Outside THEN activeElement
                               ELSE IF isClosed THEN NoElement
                               ELSE openedFocus
            /\ UNCHANGED <<focus, attrs, tickPending>>

\* hide(), lines 126-136: up to and including dispatchEvent('hide')
hide(trig) ==
  /\ called' = "hide"
  /\ trigger' = Origin(trig)
  /\ eventAnim' = 0
  /\ UNCHANGED env
  /\ IF HideRejects
       THEN /\ ret' = "false"
            /\ event' = "none"
            /\ UNCHANGED <<isOpen, isClosed, bodyOpen, prevFocus, focus, attrs,
                           anims, micro, stack, tickPending, openedFocus>>
       ELSE IF ~rendered
       THEN \* this.container is null: cancelAnims (line 133) throws
            /\ bodyOpen' = classListRemove(bodyOpen)
            /\ isOpen' = FALSE
            /\ ret' = "threw"
            /\ event' = "none"
            /\ UNCHANGED <<isClosed, prevFocus, focus, attrs, anims, micro,
                           stack, tickPending, openedFocus>>
       ELSE /\ Room
            /\ bodyOpen' = classListRemove(bodyOpen)
            /\ isOpen' = FALSE
            /\ anims' = MarkInterrupted(cancelAnims(anims), Entering(anims))
            /\ micro' = micro \o RunningSeq(anims)
            /\ event' = "hide"
            /\ stack' = Append(stack,
                 [fn |-> "hide", trig |-> Origin(trig),
                  interrupted |-> Entering(anims)])
            /\ ret' = "none"
            /\ UNCHANGED <<isClosed, prevFocus, focus, attrs, tickPending,
                           openedFocus>>

\* Mutant of toggle: the two branches are swapped.
toggle_Swapped(trig) == IF isOpen THEN show(trig) ELSE hide(trig)

\* toggle(): return this.isOpen ? this.hide() : this.show()
toggle(trig) == IF isOpen THEN hide(trig) ELSE show(trig)

\* The rest of show() / hide() once dispatchEvent has returned: start the
\* animation, attach the continuation, (show) schedule the frame callback,
\* return true.
Resume ==
  /\ stack # <<>>
  /\ anims' = Append(anims, animate(Top.fn))
  /\ tickPending' = (tickPending \/ Top.fn = "show")
  /\ stack' = SubSeq(stack, 1, Len(stack) - 1)
  /\ called' = "none"
  /\ trigger' = "return"
  /\ ret' = "true"
  /\ event' = "none"
  /\ eventAnim' = 0
  /\ UNCHANGED <<isOpen, isClosed, bodyOpen, prevFocus, focus, attrs, micro,
                 openedFocus>>
  /\ UNCHANGED env

\* The application calls a public method.
CallShow == CanCall /\ show("show")

CallHide == CanCall /\ hide("hide")

CallToggle == CanCall /\ toggle("toggle")

\* A step that enters no method and dispatches nothing.
Quiet(trig) ==
  /\ called' = "none"
  /\ trigger' = trig
  /\ ret' = "none"
  /\ event' = "none"
  /\ eventAnim' = 0
  /\ UNCHANGED env

\* No call, microtask or first render is pending: the browser can deliver
\* a user event or run a frame.
Idle ==
  /\ stack = <<>>
  /\ micro = <<>>
  /\ connected => rendered

\* _clickHandler: a click on a [data-dismiss='modal'] descendant
ClickDismiss ==
  /\ Idle
  /\ rendered
  /\ ~hidden
  /\ IF HasListener("click")
       THEN hide("dismiss")
       ELSE /\ Quiet("dismiss")
            /\ UNCHANGED <<isOpen, isClosed, bodyOpen, prevFocus, focus, attrs,
                           anims, micro, stack, tickPending, openedFocus>>

\* Mutant of BackdropDismisses: every value but "false" enables dismissal.
BackdropDismisses_NotFalse == backdrop # "false"

\* if (this.backdrop === 'true')
BackdropDismisses == backdrop = "true"

\* _clickBackdropHandler
ClickBackdrop ==
  /\ Idle
  /\ rendered
  /\ ~hidden
  /\ IF BackdropDismisses
       THEN hide("backdrop")
       ELSE /\ Quiet("backdrop")
            /\ UNCHANGED <<isOpen, isClosed, bodyOpen, prevFocus, focus, attrs,
                           anims, micro, stack, tickPending, openedFocus>>

\* Mutant of KeyDismisses: the keyboard attribute is not consulted.
KeyDismisses_AnyAttr(key) == key = "Escape" \/ key = "Esc"

\* if (this.keyboard === 'true' && (event.key === 'Escape' || ... 'Esc'))
KeyDismisses(key) == keyboard = "true" /\ (key = "Escape" \/ key = "Esc")

\* _keyHandler, while its keydown listener is registered on the document
KeyDown(key) ==
  /\ Idle
  /\ IF HasListener("keydown") /\ KeyDismisses(key)
       THEN hide(key)
       ELSE /\ Quiet(key)
            /\ UNCHANGED <<isOpen, isClosed, bodyOpen, prevFocus, focus, attrs,
                           anims, micro, stack, tickPending, openedFocus>>

\* The application sets the backdrop or keyboard attribute.
SetAttr ==
  /\ stack = <<>> /\ micro = <<>>
  /\ \E b \in AttrValues, k \in AttrValues :
       /\ <<b, k>> # <<backdrop, keyboard>>
       /\ backdrop' = b
       /\ keyboard' = k
  /\ Quiet("none")
  /\ UNCHANGED <<isOpen, isClosed, bodyOpen, prevFocus, focus, anims, micro,
                 stack, tickPending, openedFocus>>

\* The user moves focus to an element; the focusin listener runs.
UserFocus(e) ==
  /\ Idle
  /\ e # activeElement
  /\ e \in Inside => (~hidden /\ connected)
  /\ focus' = FocusCall(e)
  /\ Quiet(e)
  /\ UNCHANGED <<isOpen, isClosed, bodyOpen, prevFocus, attrs, anims, micro,
                 stack, tickPending, openedFocus>>

\* The frame callback of show(): this.focus({preventScroll: true})
Tick ==
  /\ Idle
  /\ tickPending
  /\ tickPending' = FALSE
  /\ focus' = FocusModal
  /\ Quiet("none")
  /\ UNCHANGED <<isOpen, isClosed, bodyOpen, prevFocus, attrs, anims, micro,
                 stack, openedFocus>>

\* An animation reaches its end: anim.finished is fulfilled.
AnimFinish(i) ==
  /\ stack = <<>>
  /\ i \in Running(anims)
  /\ anims' = [anims EXCEPT ![i].state = "finished", ![i].finished = "fulfilled"]
  /\ micro' = Append(micro, i)
  /\ Quiet("none")
  /\ UNCHANGED <<isOpen, isClosed, bodyOpen, prevFocus, focus, attrs, stack,
                 tickPending, openedFocus>>

\* The reactions of anim.finished run: the promise returned by showAnim /
\* hideAnim settles and, if it resolved, the .then() continuation of show()
\* (lines 114-116) or hide() (lines 139-144) runs.
Microtask ==
  /\ stack = <<>>
  /\ micro # <<>>
  /\ LET i == Head(micro)
         outer == SettleOuter(anims[i].finished)
     IN /\ micro' = Tail(micro)
        /\ called' = "none"
        /\ ret' = "none"
        /\ trigger' = "none"
        /\ IF outer = "resolved"
             THEN /\ anims' = [anims EXCEPT ![i].promise = outer,
                                            ![i].fired = @ + 1]
                  /\ eventAnim' = i
                  /\ IF anims[i].kind = "show"
                       THEN /\ event' = "shown"
                            /\ UNCHANGED <<isClosed, focus>>
                       ELSE /\ isClosed' = TRUE
                            /\ focus' = IF prevFocus # NoElement
                                          THEN FocusCall(prevFocus)
                                          ELSE activeElement
                            /\ event' = "hidden"
             ELSE /\ anims' = [anims EXCEPT ![i].promise = outer]
                  /\ eventAnim' = 0
                  /\ event' = "none"
                  /\ UNCHANGED <<isClosed, focus>>
  /\ UNCHANGED <<isOpen, bodyOpen, prevFocus, attrs, stack, tickPending,
                 openedFocus>>
  /\ UNCHANGED env

\* The application sets the backdrop or keyboard attribute to any string.
SetAttrAny ==
  /\ stack = <<>> /\ micro = <<>>
  /\ \E b \in AttrValues \cup OtherAttrValues,
        k \in AttrValues \cup OtherAttrValues :
       /\ <<b, k>> # <<backdrop, keyboard>>
       /\ backdrop' = b
       /\ keyboard' = k
  /\ Quiet("none")
  /\ UNCHANGED <<isOpen, isClosed, bodyOpen, prevFocus, focus, anims, micro,
                 stack, tickPending, openedFocus>>

\* Mutant of unsubscribe: removeEventListener is given handlers bound anew,
\* which match no registered listener.
unsubscribe_Rebind(ls, fs) == ls

\* this._unsubFuncs.map((func) => func()): every closure ever pushed removes
\* the listener it was made for.
unsubscribe(ls, fs) == ls \ Range(fs)

\* connectedCallback
Connect ==
  /\ stack = <<>> /\ micro = <<>>
  /\ ~connected
  /\ gen < MaxConnects
  /\ connected' = TRUE
  /\ gen' = gen + 1
  /\ listeners' = listeners \cup Bound(gen + 1)
  /\ unsubFuncs' = unsubFuncs \o BoundSeq(gen + 1)
  /\ called' = "none" /\ trigger' = "connect" /\ ret' = "none"
  /\ event' = "none" /\ eventAnim' = 0
  /\ UNCHANGED <<isOpen, isClosed, bodyOpen, prevFocus, focus, attrs, anims,
                 micro, stack, tickPending, openedFocus, rendered, other>>

\* The first update of the attached element: render() creates #container.
FirstRender ==
  /\ stack = <<>> /\ micro = <<>>
  /\ connected
  /\ ~rendered
  /\ rendered' = TRUE
  /\ called' = "none" /\ trigger' = "none" /\ ret' = "none"
  /\ event' = "none" /\ eventAnim' = 0
  /\ UNCHANGED <<isOpen, isClosed, bodyOpen, prevFocus, focus, attrs, anims,
                 micro, stack, tickPending, openedFocus, connected, listeners,
                 unsubFuncs, gen, other>>

\* disconnectedCallback
Disconnect ==
  /\ stack = <<>> /\ micro = <<>>
  /\ connected
  /\ connected' = FALSE
  /\ listeners' = unsubscribe(listeners, unsubFuncs)
  /\ called' = "none" /\ trigger' = "disconnect" /\ ret' = "none"
  /\ event' = "none" /\ eventAnim' = 0
  /\ UNCHANGED <<isOpen, isClosed, bodyOpen, prevFocus, focus, attrs, anims,
                 micro, stack, tickPending, openedFocus, rendered, unsubFuncs,
                 gen, other>>

Next ==
  \/ CallShow
  \/ CallHide
  \/ CallToggle
  \/ Resume
  \/ ClickDismiss
  \/ ClickBackdrop
  \/ \E key \in Keys : KeyDown(key)
  \/ SetAttr
  \/ \E e \in Elements : UserFocus(e)
  \/ Tick
  \/ \E i \in DOMAIN anims : AnimFinish(i)
  \/ Microtask

Spec == Init /\ [][Next]_vars

\* The element as constructed: not attached, never rendered.
InitFresh ==
  /\ isOpen = FALSE
  /\ isClosed = TRUE
  /\ bodyOpen = FALSE
  /\ prevFocus = NoElement
  /\ focus \in Outside \cup {NoElement}
  /\ backdrop = "true"
  /\ keyboard = "true"
  /\ anims = <<>>
  /\ micro = <<>>
  /\ stack = <<>>
  /\ tickPending = FALSE
  /\ event = "none"
  /\ eventAnim = 0
  /\ called = "none"
  /\ trigger = "none"
  /\ ret = "none"
  /\ openedFocus = NoElement
  /\ connected = FALSE
  /\ rendered = FALSE
  /\ listeners = {}
  /\ unsubFuncs = <<>>
  /\ gen = 0
  /\ other = [isOpen |-> FALSE, isClosed |-> TRUE, anim |-> "none"]

\* The application calls a public method from a task of its own (the calls
\* made from listeners are the subject of Spec).
ApiShow == stack = <<>> /\ CallShow

ApiHide == stack = <<>> /\ CallHide

ApiToggle == stack = <<>> /\ CallToggle

NextLife ==
  \/ ApiShow
  \/ ApiHide
  \/ ApiToggle
  \/ Resume
  \/ ClickDismiss
  \/ ClickBackdrop
  \/ \E key \in Keys : KeyDown(key)
  \/ SetAttrAny
  \/ Tick
  \/ \E i \in DOMAIN anims : AnimFinish(i)
  \/ Microtask
  \/ Connect
  \/ FirstRender
  \/ Disconnect

\* The whole life of the element: constructed, attached, rendered, detached
\* and attached again.
LifeSpec == InitFresh /\ [][NextLife]_vars

NextAttached ==
  \/ ApiShow
  \/ ApiHide
  \/ ApiToggle
  \/ Resume
  \/ ClickDismiss
  \/ ClickBackdrop
  \/ \E key \in Keys : KeyDown(key)
  \/ SetAttrAny
  \/ Tick
  \/ \E i \in DOMAIN anims : AnimFinish(i)
  \/ Microtask
  \/ Connect
  \/ Disconnect

\* The rendered element, detached from and attached to the document again.
AttachedSpec == Init /\ [][NextAttached]_vars

\* A step of the second modal: it enters no method of this one.
OtherStep ==
  /\ called' = "none"
  /\ trigger' = "other"
  /\ ret' = "none"
  /\ event' = "none"
  /\ eventAnim' = 0
  /\ UNCHANGED <<isOpen, isClosed, prevFocus, focus, attrs, anims, micro,
                 stack, tickPending, openedFocus, connected, rendered,
                 listeners, unsubFuncs, gen>>

\* show() of the second modal: its flags, the shared body class and the
\* animation on its own container.
OtherShow ==
  /\ stack = <<>> /\ micro = <<>>
  /\ ~other.isOpen
  /\ other' = [isOpen |-> TRUE, isClosed |-> FALSE, anim |-> "show"]
  /\ bodyOpen' = classListAdd(bodyOpen)
  /\ OtherStep

\* hide() of the second modal
OtherHide ==
  /\ stack = <<>> /\ micro = <<>>
  /\ other.isOpen
  /\ other' = [other EXCEPT !.isOpen = FALSE, !.anim = "hide"]
  /\ bodyOpen' = classListRemove(bodyOpen)
  /\ OtherStep

\* The animation of the second modal ends and its continuation runs.
OtherAnimFinish ==
  /\ stack = <<>> /\ micro = <<>>
  /\ other.anim # "none"
  /\ other' = [other EXCEPT !.anim = "none",
                             !.isClosed = IF other.anim = "hide" THEN TRUE ELSE @]
  /\ UNCHANGED bodyOpen
  /\ OtherStep

NextPair ==
  \/ ApiShow
  \/ ApiHide
  \/ ApiToggle
  \/ Resume
  \/ \E i \in DOMAIN anims : AnimFinish(i)
  \/ Microtask
  \/ OtherShow
  \/ OtherHide
  \/ OtherAnimFinish

\* Two modals attached to the same document.
PairSpec == Init /\ [][NextPair]_vars

\* Every call returns, every running animation reaches its end, and the
\* microtask queue is drained.
FairSpec ==
  /\ Spec
  /\ WF_vars(Resume)
  /\ WF_vars(\E i \in DOMAIN anims : AnimFinish(i))
  /\ WF_vars(Microtask)

----------------------------------------------------------------------------
\* Properties

Last(as) == as[Len(as)]

\* What a rejected call leaves alone: flags, saved focus, body class, events,
\* animations and everything scheduled.
NoEffect ==
  /\ ret' = "false"
  /\ event' = "none"
  /\ UNCHANGED <<isOpen, isClosed, bodyOpen, prevFocus, focus, anims, micro,
                 stack, tickPending>>

\* The first half of the hide sequence (lines 131-136).
HideSequenceBegins ==
  /\ ~bodyOpen'
  /\ ~isOpen'
  /\ Running(anims') = {}
  /\ event' = "hide"
  /\ Len(stack') = Len(stack) + 1
  /\ stack'[Len(stack')].fn = "hide"

\* The second half (lines 139-146): a call of `fn` returns.
Returns(fn) == Len(stack') < Len(stack) /\ Top.fn = fn

HideSequenceEnds ==
  /\ ret' = "true"
  /\ Len(anims') = Len(anims) + 1
  /\ Last(anims').kind = "hide"
  /\ Last(anims').state = "running"

\* C1: isOpen and isClosed are never both true, whatever the sequence of
\* calls, dismissal triggers and animation completions, listeners included.
C1_NeverOpenAndClosed == ~(isOpen /\ isClosed)

\* C2: show() called while isOpen is true returns false and is a no-op: no
\* 'show' event, no animation started or cancelled, isOpen, isClosed, the
\* saved previous focus and the body class unchanged.
C2_ShowWhileOpenIsNoOp ==
  [][(called' = "show" /\ isOpen) => NoEffect]_vars

C2_Witness ==
  /\ called = "show"
  /\ ret = "false"
  /\ isOpen
  /\ \E i \in Running(anims) : anims[i].kind = "show"

\* C3 (as stated): hide() is a no-op returning false when the modal is
\* already closed (isClosed), and in every other state it performs the hide
\* sequence and returns true.
C3_HideRejectsOnlyWhenClosed ==
  [][(called' = "hide") =>
       IF isClosed THEN NoEffect ELSE HideSequenceBegins]_vars

\* C3 (amended): hide() is a no-op returning false exactly when isOpen is
\* false, which covers fully closed and the transient closing state; it
\* performs the hide sequence and returns true only when isOpen is true.
C3_HideRejectsWhenNotOpen ==
  [][/\ (called' = "hide") =>
          IF ~isOpen THEN NoEffect ELSE HideSequenceBegins
     /\ Returns("hide") => HideSequenceEnds]_vars

C3_Witness ==
  /\ called = "hide"
  /\ ret = "false"
  /\ ~isOpen
  /\ ~isClosed
  /\ \E i \in Running(anims) : anims[i].kind = "hide"

\* C4: whenever 'shown' is dispatched, isOpen is true and isClosed is false.
C4_ShownMeansOpen == (event = "shown") => (isOpen /\ ~isClosed)

\* C5: whenever 'hidden' is dispatched, isOpen is false and isClosed is true.
C5_HiddenMeansClosed == (event = "hidden") => (~isOpen /\ isClosed)

InMicro(i) == \E k \in DOMAIN micro : micro[k] = i

\* The reactions of anim.finished have run for animation i.
Settled(i) == anims[i].state # "running" /\ ~InMicro(i)

FullyClosed == ~isOpen /\ isClosed

\* A hide() has just been accepted while an entrance animation was running.
HideInterruptsEntrance ==
  /\ event = "hide"
  /\ stack # <<>>
  /\ Top.interrupted # {}

\* Nothing runs and nothing is scheduled to run on the container.
AtRest ==
  /\ Running(anims) = {}
  /\ micro = <<>>
  /\ stack = <<>>

\* C6: when hide() is accepted while the entrance animation runs, that
\* animation is cancelled and never dispatches 'shown'; unless a further
\* show() is accepted, 'hidden' is eventually dispatched and the modal comes
\* to rest fully closed with no animation running, and stays so.
C6_InterruptedEntrance ==
  /\ [](\A i \in DOMAIN anims :
          anims[i].interrupted =>
            (anims[i].state = "canceled" /\ anims[i].fired = 0))
  /\ HideInterruptsEntrance ~> (event = "show" \/ event = "hidden")
  /\ HideInterruptsEntrance ~> (event = "show" \/ (FullyClosed /\ AtRest))
  /\ [][(FullyClosed /\ AtRest /\ event' # "show")
         => (FullyClosed /\ AtRest)']_vars

C6_Witness ==
  /\ event = "hidden"
  /\ FullyClosed
  /\ AtRest
  /\ \E i \in DOMAIN anims : anims[i].interrupted /\ Settled(i)

\* C7: at most one animation runs on the container at any time.
C7_AtMostOneAnimation == Cardinality(Running(anims)) <= 1

\* C8: 'show' / 'hide' is dispatched inside the call, before the animation of
\* that call is started; 'shown' / 'hidden' is dispatched only by the
\* continuation of an animation of the matching kind that finished naturally
\* (never a cancelled one), at most once for each animation.
C8_EventOrdering ==
  /\ event \in {"show", "hide"} =>
       /\ stack # <<>>
       /\ Top.fn = event
       /\ Running(anims) = {}
  /\ event \in {"shown", "hidden"} =>
       /\ eventAnim \in DOMAIN anims
       /\ anims[eventAnim].kind = (IF event = "shown" THEN "show" ELSE "hide")
       /\ anims[eventAnim].state = "finished"
       /\ anims[eventAnim].finished = "fulfilled"
  /\ \A i \in DOMAIN anims :
       /\ anims[i].fired <= 1
       /\ anims[i].fired = 1 => anims[i].state = "finished"

C8_Witness ==
  /\ event = "shown"
  /\ \E j \in DOMAIN anims :
       anims[j].kind = "show" /\ anims[j].state = "canceled" /\ Settled(j)

\* C9: if an element outside the modal has focus when the modal is opened,
\* focus is back on that element whenever 'hidden' is dispatched.
C9_FocusRestored ==
  (event = "hidden" /\ openedFocus \in Outside) => focus = openedFocus

\* C10 (as stated): the promise of showAnim / hideAnim always settles: once
\* the animation has finished or been cancelled it is resolved.
C10_PromiseAlwaysSettles ==
  \A i \in DOMAIN anims : Settled(i) => anims[i].promise = "resolved"

\* C10 (amended): the promise resolves when the animation finishes
\* naturally; when the animation is cancelled it is never rejected and never
\* resolved: it stays pending.
C10_PromiseResolvesOnlyOnFinish ==
  \A i \in DOMAIN anims :
    /\ anims[i].promise \in {"pending", "resolved"}
    /\ Settled(i) =>
         (anims[i].promise = "resolved" <=> anims[i].state = "finished")
    /\ anims[i].state = "canceled" =>
         (anims[i].promise = "pending" /\ anims[i].fired = 0)

C10_Witness ==
  /\ \E i \in DOMAIN anims :
       anims[i].state = "canceled" /\ Settled(i) /\ anims[i].promise = "pending"
  /\ \E j \in DOMAIN anims :
       anims[j].state = "finished" /\ Settled(j) /\ anims[j].promise = "resolved"

\* What a handler that does not call hide() leaves alone.
NoHide ==
  /\ event' = "none"
  /\ UNCHANGED <<isOpen, isClosed, bodyOpen, anims, micro, stack>>

\* C11: a click on the backdrop of an open modal starts the hide sequence if
\* the backdrop attribute is the string "true"; with any other value it
\* leaves the flags, the body class and the animations unchanged.
C11_BackdropClick ==
  [][(trigger' = "backdrop" /\ isOpen) =>
       IF backdrop = "true" THEN HideSequenceBegins ELSE NoHide]_vars

C11_Witness ==
  /\ trigger = "backdrop"
  /\ called = "none"
  /\ isOpen
  /\ backdrop \in OtherAttrValues

\* C12: a keydown on the document starts the hide sequence if the modal is
\* attached and open, the keyboard attribute is the string "true" and the key
\* is Escape (or Esc); in every other case it leaves the modal unchanged and
\* dispatches no 'hide'.
C12_EscapeKey ==
  [][(trigger' \in Keys) =>
       IF /\ connected
          /\ isOpen
          /\ keyboard = "true"
          /\ trigger' \in {"Escape", "Esc"}
         THEN HideSequenceBegins
         ELSE NoHide]_vars

C12_Witness ==
  /\ trigger = "Escape"
  /\ called = "none"
  /\ connected
  /\ isOpen
  /\ keyboard # "true"

\* The listeners of one type that are registered for this element.
Registered(t) == {l \in listeners : l.type = t}

\* C13: while the element is attached exactly one click, one keydown and one
\* focusin listener are registered; while it is detached, none.
C13_ListenersFollowAttachment ==
  IF connected
    THEN \A t \in ListenerTypes : Cardinality(Registered(t)) = 1
    ELSE listeners = {}

C13_Witness ==
  /\ connected
  /\ gen >= 2
  /\ Len(unsubFuncs) >= 6

\* C14: show() and hide() never raise, in any state of the element, and an
\* accepted call has dispatched its event when it changed the flags.
C14_ShowHideTotal ==
  /\ ret # "threw"
  /\ (called \in {"show", "hide"} /\ ret = "none") => event = called

\* C15: a focus move to an element outside the modal while isOpen is true
\* ends with focus on the modal; while isOpen is false the focus move is
\* left alone.
C15_FocusContained ==
  [][(trigger' \in Elements) =>
       IF isOpen /\ trigger' \in Outside
         THEN focus' = "modal"
         ELSE focus' = trigger']_vars

C17_DetachedLeavesNothing ==
  [][(connected /\ ~connected') =>
       /\ ~bodyOpen'
       /\ Registered("keydown")' = {}
       /\ Registered("focusin")' = {}]_vars

\* C18: once a show() / hide() / toggle() call has returned, the body
\* carries 'modal-open' if and only if isOpen is true.
C18_BodyClassFollowsIsOpen ==
  (ret \in {"true", "false"} \/ stack = <<>>) => (bodyOpen <=> isOpen)

C18_Witness ==
  /\ ret = "true"
  /\ stack # <<>>
  /\ Top.fn = "hide"
  /\ isOpen
  /\ bodyOpen

\* C19: with two modals on one document the body carries 'modal-open'
\* whenever at least one of them has isOpen true.
C19_BodyClassWhileAnyOpen == (isOpen \/ other.isOpen) => bodyOpen

OfKind(k) == {i \in DOMAIN anims : anims[i].kind = k}

LastOfKind(k) == CHOOSE i \in OfKind(k) : \A j \in OfKind(k) : j <= i

StableOpen ==
  /\ isOpen
  /\ ~isClosed
  /\ OfKind("show") # {}
  /\ anims[LastOfKind("show")].fired = 1

StableClosed ==
  /\ ~isOpen
  /\ isClosed
  /\ OfKind("hide") # {} => anims[LastOfKind("hide")].fired = 1

\* C20: once every animation has finished and no call is in progress, the
\* modal is fully open with 'shown' dispatched for the last show(), or fully
\* closed with 'hidden' dispatched for the last hide().
C20_SettlesStable == AtRest => (StableOpen \/ StableClosed)

====
